---- MODULE Spec2Model ----
(***************************************************************************)
(* psg_lite: a three channel square wave + shared noise sample generator.  *)
(* The structs of src/lib.rs are records, their methods are operators on   *)
(* those records, and every public call on a SoundGenerator is one action. *)
(*                                                                         *)
(* Integer widths.  u8 and u16 values are reduced modulo 2^8 and 2^16 where *)
(* the code casts or computes in those types, and the i16 sample sum wraps *)
(* modulo 2^16.  The u32, i32, u64 and i64 quantities (rates, sources,     *)
(* error accumulators) are exact here: the rates of this model keep every  *)
(* one of them well inside 31 bits.                                        *)
(***************************************************************************)
EXTENDS Integers, Sequences, FiniteSets

\* ------------------------------------------------------------- constants

CHANNELS == 3

\* bitflags Output
NONE == 0
TONE == 1
NOISE == 2

\* The 16 listed values of the volume table and the divider of the i16 table.
VOLUME_VALUES ==
  <<0, 170, 241, 341, 482, 682, 965, 1365, 1930, 2730, 3861, 5461, 7723,
    10922, 15446, 21845>>

DIVIDER_i16 == 2

\* ------------------------------------------------------------ arithmetic

U8(x) == x % 256

U16(x) == x % 65536

\* two's complement i16 of an integer (wrapping addition of a release build)
I16(x) == ((x + 32768) % 65536) - 32768

Max(a, b) == IF a >= b THEN a ELSE b

RECURSIVE BitXor(_, _)
BitXor(a, b) ==
  IF a = 0 /\ b = 0 THEN 0
  ELSE (((a % 2) + (b % 2)) % 2) + (2 * BitXor(a \div 2, b \div 2))

RECURSIVE BitOr(_, _)
BitOr(a, b) ==
  IF a = 0 /\ b = 0 THEN 0
  ELSE (IF (a % 2) = 1 \/ (b % 2) = 1 THEN 1 ELSE 0) + (2 * BitOr(a \div 2, b \div 2))

RECURSIVE BitAnd(_, _)
BitAnd(a, b) ==
  IF a = 0 \/ b = 0 THEN 0
  ELSE (IF (a % 2) = 1 /\ (b % 2) = 1 THEN 1 ELSE 0) + (2 * BitAnd(a \div 2, b \div 2))

\* Output::contains: every bit of other is set in self
Contains(self, other) == BitAnd(self, other) = other

\* Output::toggle
Toggle(self, other) == BitXor(self, other)

\* ---------------------------------------------------------- ToneGenerator

ToneGenerator_new(clock_rate, sample_rate) ==
  LET sample_rate_x8 == sample_rate * 8
      period == U16((clock_rate \div (sample_rate_x8 * 2)) + 1)
      source == period * sample_rate_x8
  IN [clock_rate |-> clock_rate,
      sample_rate_x8 |-> sample_rate_x8,
      error |-> clock_rate,
      period_min |-> period,
      source |-> source,
      output |-> NONE]

\* (mutant) the divider restarted by a new period
ToneGenerator_set_period_restart(self, period) ==
  IF ~(period < 4096) THEN [panic |-> TRUE, self |-> self]
  ELSE LET p == Max(period, self.period_min)
       IN [panic |-> FALSE,
           self |-> [self EXCEPT !.source = self.sample_rate_x8 * p,
                                 !.error = self.clock_rate,
                                 !.output = NONE]]

\* A method that can panic returns [panic, self]: self is the memory the
\* caller's object holds when the call returns or unwinds.
ToneGenerator_set_period(self, period) ==
  IF ~(period < 4096) THEN [panic |-> TRUE, self |-> self]
  ELSE LET p == Max(period, self.period_min)
       IN [panic |-> FALSE,
           self |-> [self EXCEPT !.source = self.sample_rate_x8 * p]]

\* (mutant) the tone flag inserted on a re-bias, not toggled
ToneGenerator_update_insert(self) ==
  LET e == self.error - self.clock_rate
      next == IF e < 0
              THEN [self EXCEPT !.error = e + self.source,
                                !.output = BitOr(self.output, TONE)]
              ELSE [self EXCEPT !.error = e]
  IN [self |-> next, out |-> next.output]

ToneGenerator_update(self) ==
  LET e == self.error - self.clock_rate
      next == IF e < 0
              THEN [self EXCEPT !.error = e + self.source,
                                !.output = Toggle(self.output, TONE)]
              ELSE [self EXCEPT !.error = e]
  IN [self |-> next, out |-> next.output]

\* ---------------------------------------------------------------- Channel

\* (mutant) a channel that starts in TONE mode
Channel_new_tone(clock_rate, sample_rate) ==
  [generator |-> ToneGenerator_new(clock_rate, sample_rate),
   volume |-> 0,
   mode |-> TONE]

Channel_new(clock_rate, sample_rate) ==
  [generator |-> ToneGenerator_new(clock_rate, sample_rate),
   volume |-> 0,
   mode |-> NONE]

Channel_set_period(self, period) ==
  LET r == ToneGenerator_set_period(self.generator, period)
  IN [panic |-> r.panic, self |-> [self EXCEPT !.generator = r.self]]

\* (mutant) the mode not stored by the call
Channel_set_mode_deferred(self, mode) == self

Channel_set_mode(self, mode) == [self EXCEPT !.mode = mode]

\* (mutant) the volume stored before the assertion runs
Channel_set_volume_store_first(self, volume) ==
  [panic |-> ~(volume < 16), self |-> [self EXCEPT !.volume = volume]]

\* (mutant) the assertion left out
Channel_set_volume_unchecked(self, volume) ==
  [panic |-> FALSE, self |-> [self EXCEPT !.volume = volume]]

Channel_set_volume(self, volume) ==
  IF ~(volume < 16) THEN [panic |-> TRUE, self |-> self]
  ELSE [panic |-> FALSE, self |-> [self EXCEPT !.volume = volume]]

\* (mutant) a channel of mode NONE left where it is
Channel_update_lazy(self, noise) ==
  IF self.mode = NONE THEN [self |-> self, out |-> 0]
  ELSE LET g == ToneGenerator_update(self.generator)
       IN [self |-> [self EXCEPT !.generator = g.self],
           out |-> IF Contains(BitOr(g.out, noise), self.mode) THEN 0 ELSE self.volume]

\* (mutant) the mode tested for an overlap with the flags, not containment
Channel_update_intersects(self, noise) ==
  LET g == ToneGenerator_update(self.generator)
  IN [self |-> [self EXCEPT !.generator = g.self],
      out |-> IF BitAnd(BitOr(g.out, noise), self.mode) # 0 THEN 0 ELSE self.volume]

\* (mutant) receiver and argument of contains swapped
Channel_update_swapped(self, noise) ==
  LET g == ToneGenerator_update(self.generator)
  IN [self |-> [self EXCEPT !.generator = g.self],
      out |-> IF Contains(self.mode, BitOr(g.out, noise)) THEN 0 ELSE self.volume]

Channel_update(self, noise) ==
  LET g == ToneGenerator_update(self.generator)
  IN [self |-> [self EXCEPT !.generator = g.self],
      out |-> IF Contains(BitOr(g.out, noise), self.mode) THEN 0 ELSE self.volume]

\* --------------------------------------------------------- NoiseGenerator

NoiseGenerator_new(clock_rate, sample_rate) ==
  LET sample_rate_x16 == sample_rate * 16
      period_min == U8(clock_rate \div sample_rate_x16)
      source == U8(period_min + 1) * sample_rate_x16
  IN [clock_rate |-> clock_rate,
      sample_rate_x16 |-> sample_rate_x16,
      error |-> clock_rate,
      period_min |-> period_min,
      source |-> source,
      shift |-> 1]

\* (mutant) the source computed from the period without the + 1
NoiseGenerator_set_period_no_increment(self, period) ==
  IF ~(period < 32) THEN [panic |-> TRUE, self |-> self]
  ELSE LET p == Max(self.period_min, period)
       IN [panic |-> FALSE,
           self |-> [self EXCEPT !.source = U8(p) * self.sample_rate_x16]]

NoiseGenerator_set_period(self, period) ==
  IF ~(period < 32) THEN [panic |-> TRUE, self |-> self]
  ELSE LET p == Max(self.period_min, period)
       IN [panic |-> FALSE,
           self |-> [self EXCEPT !.source = U8(p + 1) * self.sample_rate_x16]]

\* (mutant) the register shifted without feedback
ShiftStep_no_feedback(shift) == shift \div 2

\* (mutant) the feedback tapped at bit 2, not bit 3
ShiftStep_tap2(shift) ==
  BitOr(shift \div 2, U16(BitXor(shift, shift \div 4) * 32768))

\* one step of the 16 bit shift register
ShiftStep(shift) ==
  BitOr(shift \div 2, U16(BitXor(shift, shift \div 8) * 32768))

NoiseGenerator_update(self) ==
  LET e == self.error - self.clock_rate
      next == IF e < 0
              THEN [self EXCEPT !.error = e + self.source,
                                !.shift = ShiftStep(self.shift)]
              ELSE [self EXCEPT !.error = e]
  IN [self |-> next,
      out |-> IF BitAnd(next.shift, 1) # 0 THEN NOISE ELSE NONE]

\* --------------------------------------------------------- SoundGenerator

Channels == 0 .. (CHANNELS - 1)

SoundGenerator_new(clock_rate, sample_rate) ==
  [clock_rate |-> clock_rate,
   sample_rate |-> sample_rate,
   channels |-> [i \in Channels |-> Channel_new(clock_rate, sample_rate)],
   noise |-> NoiseGenerator_new(clock_rate, sample_rate)]

\* (mutant) the accessor reading the other rate
SoundGenerator_clock_rate_other(self) == self.sample_rate

SoundGenerator_clock_rate(self) == self.clock_rate

SoundGenerator_sample_rate(self) == self.sample_rate

\* self.channels[channel] panics on an index outside the array, before the
\* channel's method runs.
SoundGenerator_set_period(self, channel, period) ==
  IF channel \notin Channels THEN [panic |-> TRUE, self |-> self]
  ELSE LET r == Channel_set_period(self.channels[channel], period)
       IN [panic |-> r.panic, self |-> [self EXCEPT !.channels[channel] = r.self]]

SoundGenerator_set_volume(self, channel, volume) ==
  IF channel \notin Channels THEN [panic |-> TRUE, self |-> self]
  ELSE LET r == Channel_set_volume(self.channels[channel], volume)
       IN [panic |-> r.panic, self |-> [self EXCEPT !.channels[channel] = r.self]]

SoundGenerator_set_mode(self, channel, mode) ==
  IF channel \notin Channels THEN [panic |-> TRUE, self |-> self]
  ELSE [panic |-> FALSE,
        self |-> [self EXCEPT !.channels[channel] =
                                 Channel_set_mode(self.channels[channel], mode)]]

SoundGenerator_set_noise_period(self, period) ==
  LET r == NoiseGenerator_set_period(self.noise, period)
  IN [panic |-> r.panic, self |-> [self EXCEPT !.noise = r.self]]

\* ------------------------------------------------------------ mixer (i16)

\* (mutant) the table without the division by the divider
OUTPUT_VOLUME_TABLE_undivided ==
  [i \in 0 .. 15 |-> I16(VOLUME_VALUES[i + 1])]

OUTPUT_VOLUME_TABLE_i16 ==
  [i \in 0 .. 15 |-> I16(I16(VOLUME_VALUES[i + 1]) \div DIVIDER_i16)]

\* get_unchecked(index): an index outside the table is undefined behaviour,
\* and junk is whatever the read then yields.
GetUnchecked(index, junk) ==
  IF index \in 0 .. 15 THEN OUTPUT_VOLUME_TABLE_i16[index] ELSE junk

\* the fold over the three channels, in order, from sum = 0
RECURSIVE MixFold(_, _, _, _, _, _)
MixFold(channels, noise, i, sum, outs, junk) ==
  IF i = CHANNELS THEN [channels |-> channels, sum |-> sum, outs |-> outs]
  ELSE LET c == Channel_update(channels[i], noise)
       IN MixFold([channels EXCEPT ![i] = c.self], noise, i + 1,
                  I16(sum + GetUnchecked(c.out, junk[i])),
                  Append(outs, c.out), junk)

\* (mutant) the channels given the noise flag of before this sample's advance
next_sample_stale_noise(generator, junk) ==
  LET nz == NoiseGenerator_update(generator.noise)
      stale == IF BitAnd(generator.noise.shift, 1) # 0 THEN NOISE ELSE NONE
      m == MixFold(generator.channels, stale, 0, 0, <<>>, junk)
  IN [self |-> [generator EXCEPT !.noise = nz.self, !.channels = m.channels],
      sample |-> m.sum,
      noise |-> nz.out,
      outs |-> m.outs]

\* OutputSample<i16>::next_sample.  Returns the generator after the call, the
\* sample, and (for the observer) the noise flag and the three contributions.
next_sample(generator, junk) ==
  LET nz == NoiseGenerator_update(generator.noise)
      m == MixFold(generator.channels, nz.out, 0, 0, <<>>, junk)
  IN [self |-> [generator EXCEPT !.noise = nz.self, !.channels = m.channels],
      sample |-> m.sum,
      noise |-> nz.out,
      outs |-> m.outs]

\* ------------------------------------------------------------------ state

VARIABLES
  sg,       \* the SoundGenerator
  ret,      \* the last call on sg and what it returned
  samples,  \* number of next_sample calls so far
  test,     \* the locals of tests::test and what it observes of channel 0
  twin      \* a second SoundGenerator, its last call, the calls it alone got

vars == <<sg, ret, samples, test, twin>>

\* bounds of the exploration: next_sample calls per run
MaxSamples == 4
MaxTestSamples == 50
MaxDummy == 2
MaxTwinSamples == 3

Ret(op, channel, arg, panic, sample, noise, outs) ==
  [op |-> op, channel |-> channel, arg |-> arg, panic |-> panic,
   sample |-> sample, noise |-> noise, outs |-> outs]

\* what an out-of-bounds table read may yield
Junk == {-1, 32767}

\* The reads of one next_sample call: a read is out of bounds only for a
\* stored volume above 15, and only then does its junk matter.
JunkReads(generator) ==
  IF \A i \in Channels : generator.channels[i].volume \in 0 .. 15
  THEN {[i \in Channels |-> 0]}
  ELSE [Channels -> Junk]

\* (clock_rate, sample_rate) pairs an engine is constructed with
Rates == {<<8, 1>>, <<30, 1>>, <<4064, 1>>, <<4080, 1>>}

\* arguments the caller passes, valid and invalid
ChannelArgs == {1, 3}
PeriodArgs == {0, 3, 4096}
VolumeArgs == {15, 16}
ModeArgs == {NONE, TONE, NOISE, TONE + NOISE}
NoisePeriodArgs == {0, 31, 32}

\* the tone divider state the test watches
ToneState(generator) ==
  <<generator.channels[0].generator.error, generator.channels[0].generator.output>>

TestOff ==
  [pc |-> "off", period |-> 0, zero |-> 0, non_zero |-> 0, toggles |-> 0,
   mark |-> <<>>, cycle |-> <<>>, hist |-> <<>>]

\* new(clock_rate, sample_rate): ret.arg keeps the two arguments
Constructed(rates) ==
  /\ \E r \in rates :
        /\ sg = SoundGenerator_new(r[1], r[2])
        /\ ret = Ret("new", 0, r, FALSE, 0, NONE, <<>>)
  /\ samples = 0
  /\ twin = [sg |-> sg, ret |-> ret, solo |-> {}]

Init ==
  /\ Constructed(Rates)
  /\ test = TestOff

\* ---------------------------------------------------------------- actions
\* One per public method, on sg.

SetPeriod(channel, period) ==
  LET r == SoundGenerator_set_period(sg, channel, period)
  IN /\ sg' = r.self
     /\ ret' = Ret("set_period", channel, period, r.panic, 0, NONE, <<>>)

SetVolume(channel, volume) ==
  LET r == SoundGenerator_set_volume(sg, channel, volume)
  IN /\ sg' = r.self
     /\ ret' = Ret("set_volume", channel, volume, r.panic, 0, NONE, <<>>)

SetMode(channel, mode) ==
  LET r == SoundGenerator_set_mode(sg, channel, mode)
  IN /\ sg' = r.self
     /\ ret' = Ret("set_mode", channel, mode, r.panic, 0, NONE, <<>>)

SetNoisePeriod(period) ==
  LET r == SoundGenerator_set_noise_period(sg, period)
  IN /\ sg' = r.self
     /\ ret' = Ret("set_noise_period", 0, period, r.panic, 0, NONE, <<>>)

\* the accessors take &self: ret.sample is the value returned
ClockRate ==
  /\ sg' = sg
  /\ ret' = Ret("clock_rate", 0, 0, FALSE, SoundGenerator_clock_rate(sg), NONE, <<>>)

SampleRate ==
  /\ sg' = sg
  /\ ret' = Ret("sample_rate", 0, 0, FALSE, SoundGenerator_sample_rate(sg), NONE, <<>>)

NextSample ==
  \E junk \in JunkReads(sg) :
    LET r == next_sample(sg, junk)
    IN /\ sg' = r.self
       /\ ret' = Ret("next_sample", 0, 0, FALSE, r.sample, r.noise, r.outs)

\* ------------------------------------------------------------- any caller
\* Any calls in any order, valid or not; a caught panic leaves the engine
\* in the caller's hands.

CallSetPeriod ==
  /\ \E ch \in ChannelArgs, p \in PeriodArgs : SetPeriod(ch, p)
  /\ UNCHANGED <<samples, test, twin>>

CallSetVolume ==
  /\ \E ch \in ChannelArgs, v \in VolumeArgs : SetVolume(ch, v)
  /\ UNCHANGED <<samples, test, twin>>

CallSetMode ==
  /\ \E ch \in ChannelArgs, m \in ModeArgs : SetMode(ch, m)
  /\ UNCHANGED <<samples, test, twin>>

CallSetNoisePeriod ==
  /\ \E p \in NoisePeriodArgs : SetNoisePeriod(p)
  /\ UNCHANGED <<samples, test, twin>>

CallNextSample ==
  /\ samples < MaxSamples
  /\ NextSample
  /\ samples' = samples + 1
  /\ UNCHANGED <<test, twin>>

CallClockRate ==
  /\ ClockRate
  /\ UNCHANGED <<samples, test, twin>>

CallSampleRate ==
  /\ SampleRate
  /\ UNCHANGED <<samples, test, twin>>

Next ==
  \/ CallSetPeriod
  \/ CallSetVolume
  \/ CallSetMode
  \/ CallSetNoisePeriod
  \/ CallNextSample
  \/ CallClockRate
  \/ CallSampleRate

Spec == Init /\ [][Next]_vars

\* -------------------------------------------------------------- the mixer
\* A caller that sets volumes and modes of all three channels and samples.

MixRates == {<<8, 1>>}
MixVolumeArgs == {9, 15}

MixInit ==
  /\ Constructed(MixRates)
  /\ test = TestOff

MixSetVolume ==
  /\ \E ch \in Channels, v \in MixVolumeArgs : SetVolume(ch, v)
  /\ UNCHANGED <<samples, test, twin>>

MixSetMode ==
  /\ \E ch \in Channels, m \in ModeArgs : SetMode(ch, m)
  /\ UNCHANGED <<samples, test, twin>>

MixNext ==
  \/ MixSetVolume
  \/ MixSetMode
  \/ CallNextSample

SpecMix == MixInit /\ [][MixNext]_vars

\* --------------------------------------------------------- the unit test
\* tests::test with its constants left open: it configures channel 0 (here
\* the noise period as well), discards samples, then counts the zero and
\* the non-zero samples.  Beside the test's two counters the observer keeps
\* the toggles of channel 0's tone bit, the tone divider state at the first
\* counted sample's start (mark), the counters at the first return to that
\* state (cycle), and the last four samples of channel 0 (hist).

TestRates ==
  {<<8, 1>>, <<16, 1>>, <<30, 1>>, <<20000000, 2500000>>, <<1789772, 44100>>}
TestModeArgs == {NONE, TONE, NOISE, TONE + NOISE}
TestVolumeArgs == {9, 15}
TestPeriodArgs == {1, 2, 3, 5}
TestNoisePeriodArgs == {0, 2}

TestInit ==
  /\ Constructed(TestRates)
  /\ test = [TestOff EXCEPT !.pc = "set_mode"]

TestSetMode ==
  /\ test.pc = "set_mode"
  /\ \E m \in TestModeArgs : SetMode(0, m)
  /\ test' = [test EXCEPT !.pc = "set_volume"]
  /\ UNCHANGED <<samples, twin>>

TestSetVolume ==
  /\ test.pc = "set_volume"
  /\ \E v \in TestVolumeArgs : SetVolume(0, v)
  /\ test' = [test EXCEPT !.pc = "set_period"]
  /\ UNCHANGED <<samples, twin>>

TestSetPeriod ==
  /\ test.pc = "set_period"
  /\ \E p \in TestPeriodArgs :
        /\ SetPeriod(0, p)
        /\ test' = [test EXCEPT !.pc = "set_noise_period", !.period = p]
  /\ UNCHANGED <<samples, twin>>

TestSetNoisePeriod ==
  /\ test.pc = "set_noise_period"
  /\ \E p \in TestNoisePeriodArgs : SetNoisePeriod(p)
  /\ test' = [test EXCEPT !.pc = "dummy"]
  /\ UNCHANGED <<samples, twin>>

\* what the observer notes of the sample just taken
Observed(t) ==
  LET bit == sg'.channels[0].generator.output
      h == Append(t.hist, [tone |-> bit, noise |-> ret'.noise, out |-> ret'.outs[1]])
  IN [t EXCEPT
        !.toggles = IF bit # sg.channels[0].generator.output THEN @ + 1 ELSE @,
        !.hist = IF Len(h) > 4 THEN Tail(h) ELSE h]

\* the discarded samples ("dummy"): at least one
TestDummy ==
  /\ test.pc = "dummy"
  /\ NextSample
  /\ samples' = samples + 1
  /\ \/ /\ samples' < MaxDummy
        /\ test' = Observed(test)
     \/ test' = [Observed(test) EXCEPT !.pc = "count", !.mark = ToneState(sg')]
  /\ UNCHANGED twin

\* one turn of the counting loop
TestCount ==
  /\ test.pc = "count"
  /\ samples < MaxTestSamples
  /\ NextSample
  /\ samples' = samples + 1
  /\ LET t == [Observed(test) EXCEPT
                 !.zero = IF ret'.sample # 0 THEN @ ELSE @ + 1,
                 !.non_zero = IF ret'.sample # 0 THEN @ + 1 ELSE @]
     IN test' = IF t.cycle = <<>> /\ ToneState(sg') = t.mark
                THEN [t EXCEPT !.cycle = <<t.zero, t.non_zero>>]
                ELSE t
  /\ UNCHANGED twin

TestNext ==
  \/ TestSetMode
  \/ TestSetVolume
  \/ TestSetPeriod
  \/ TestSetNoisePeriod
  \/ TestDummy
  \/ TestCount

SpecTest == TestInit /\ [][TestNext]_vars

\* ------------------------------------------------------------ two engines
\* sg and twin.sg are constructed alike.  A Pair action makes the same call
\* on both; a Solo action calls twin.sg alone and notes the method in
\* twin.solo.

PairRates == {<<8, 1>>}
PairPeriodArgs == {3}
PairVolumeArgs == {15, 16}
PairModeArgs == {TONE, TONE + NOISE}
PairNoisePeriodArgs == {1}

TwinCalled(r, op, channel, arg) ==
  [sg |-> r.self,
   ret |-> Ret(op, channel, arg, r.panic, 0, NONE, <<>>),
   solo |-> twin.solo]

TwinSolo(r, op, channel, arg) ==
  [sg |-> r.self,
   ret |-> Ret(op, channel, arg, r.panic, 0, NONE, <<>>),
   solo |-> twin.solo \cup {op}]

PairInit ==
  /\ Constructed(PairRates)
  /\ test = TestOff

PairSetPeriod ==
  /\ \E p \in PairPeriodArgs :
        /\ SetPeriod(1, p)
        /\ twin' = TwinCalled(SoundGenerator_set_period(twin.sg, 1, p),
                              "set_period", 1, p)
  /\ UNCHANGED <<samples, test>>

PairSetVolume ==
  /\ \E v \in PairVolumeArgs :
        /\ SetVolume(1, v)
        /\ twin' = TwinCalled(SoundGenerator_set_volume(twin.sg, 1, v),
                              "set_volume", 1, v)
  /\ UNCHANGED <<samples, test>>

PairSetMode ==
  /\ \E m \in PairModeArgs :
        /\ SetMode(1, m)
        /\ twin' = TwinCalled(SoundGenerator_set_mode(twin.sg, 1, m),
                              "set_mode", 1, m)
  /\ UNCHANGED <<samples, test>>

PairSetNoisePeriod ==
  /\ \E p \in PairNoisePeriodArgs :
        /\ SetNoisePeriod(p)
        /\ twin' = TwinCalled(SoundGenerator_set_noise_period(twin.sg, p),
                              "set_noise_period", 0, p)
  /\ UNCHANGED <<samples, test>>

PairNextSample ==
  /\ samples < MaxTwinSamples
  /\ NextSample
  /\ \E junk \in JunkReads(twin.sg) :
        LET r == next_sample(twin.sg, junk)
        IN twin' = [sg |-> r.self,
                    ret |-> Ret("next_sample", 0, 0, FALSE, r.sample, r.noise, r.outs),
                    solo |-> twin.solo]
  /\ samples' = samples + 1
  /\ UNCHANGED test

SoloSetPeriod ==
  /\ \E p \in PairPeriodArgs :
        twin' = TwinSolo(SoundGenerator_set_period(twin.sg, 0, p),
                         "set_period", 0, p)
  /\ UNCHANGED <<sg, ret, samples, test>>

SoloSetVolume ==
  /\ twin' = TwinSolo(SoundGenerator_set_volume(twin.sg, 0, 9), "set_volume", 0, 9)
  /\ UNCHANGED <<sg, ret, samples, test>>

SoloSetMode ==
  /\ twin' = TwinSolo(SoundGenerator_set_mode(twin.sg, 0, NOISE), "set_mode", 0, NOISE)
  /\ UNCHANGED <<sg, ret, samples, test>>

PairNext ==
  \/ PairSetPeriod
  \/ PairSetVolume
  \/ PairSetMode
  \/ PairSetNoisePeriod
  \/ PairNextSample
  \/ SoloSetPeriod
  \/ SoloSetVolume
  \/ SoloSetMode

SpecPair == PairInit /\ [][PairNext]_vars

\* ------------------------------------------------------- the whole period
\* A caller that sets the noise period, then takes samples without end and
\* without counting them: the engine runs through every state it can reach
\* at these rates, the whole period of the shift register included.

NoiseRates == {<<8, 1>>}
LongNoisePeriodArgs == {0, 1}

NoiseInit ==
  /\ Constructed(NoiseRates)
  /\ test = TestOff

LongSetNoisePeriod ==
  /\ ret.op # "next_sample"
  /\ \E p \in LongNoisePeriodArgs : SetNoisePeriod(p)
  /\ UNCHANGED <<samples, test, twin>>

LongNextSample ==
  /\ NextSample
  /\ UNCHANGED <<samples, test, twin>>

NoiseNext ==
  \/ LongSetNoisePeriod
  \/ LongNextSample

SpecNoise == NoiseInit /\ [][NoiseNext]_vars

\* ================================================================ claims

TableSum(outs) ==
  OUTPUT_VOLUME_TABLE_i16[outs[1]] + OUTPUT_VOLUME_TABLE_i16[outs[2]]
    + OUTPUT_VOLUME_TABLE_i16[outs[3]]

\* the i16 fold of three table entries, as next_sample adds them
FoldSum(a, b, c) ==
  I16(I16(I16(0 + OUTPUT_VOLUME_TABLE_i16[a]) + OUTPUT_VOLUME_TABLE_i16[b])
        + OUTPUT_VOLUME_TABLE_i16[c])

AllVolumeSumsFit ==
  \A a \in 0 .. 15, b \in 0 .. 15, c \in 0 .. 15 :
    /\ FoldSum(a, b, c) \in 0 .. 32767
    /\ FoldSum(a, b, c) =
         (VOLUME_VALUES[a + 1] \div 2) + (VOLUME_VALUES[b + 1] \div 2)
           + (VOLUME_VALUES[c + 1] \div 2)

\* C1: no overflow.  Every sample next_sample returns lies in 0..32767 and is
\* the exact (unwrapped) sum of the three table entries looked up; this holds
\* for all 16^3 volume triples, and three audible channels at volume 15 give
\* 3 * (21845 div 2) = 32766.
C1_NoOverflow ==
  /\ ret.op = "next_sample" =>
       /\ ret.sample \in 0 .. 32767
       /\ ret.sample = TableSum(ret.outs)
       /\ \A i \in Channels : ret.outs[i + 1] \in {0, sg.channels[i].volume}
  /\ AllVolumeSumsFit
  /\ FoldSum(15, 15, 15) = 32766

C1_Witness ==
  /\ ret.op = "next_sample"
  /\ ret.outs = <<15, 15, 15>>
  /\ ret.sample = 32766

\* the audible-when column of the gating table
Audible(mode, tone_bit, noise_bit) ==
  CASE mode = NONE -> FALSE
    [] mode = TONE -> tone_bit = 0
    [] mode = NOISE -> noise_bit = 0
    [] mode = TONE + NOISE -> ~(tone_bit = 1 /\ noise_bit = 1)

ToneBit(generator, i) ==
  IF generator.channels[i].generator.output = TONE THEN 1 ELSE 0

NoiseBit(flag) == IF flag = NOISE THEN 1 ELSE 0

\* C2: channel gating truth table.  After every next_sample, each channel's
\* contribution is its volume when its mode is audible for (tone bit after
\* the advance, shared noise bit) and 0 otherwise; a TONE|NOISE channel at
\* volume 15 that saw tone bits 0,1,0,1 with noise bits 0,0,1,1 on its last
\* four samples contributed 15,15,15,0.
C2_GatingTable ==
  /\ ret.op = "next_sample" =>
       \A i \in Channels :
         ret.outs[i + 1] =
           IF Audible(sg.channels[i].mode, ToneBit(sg, i), NoiseBit(ret.noise))
           THEN sg.channels[i].volume ELSE 0
  /\ ( /\ Len(test.hist) = 4
       /\ sg.channels[0].mode = TONE + NOISE
       /\ sg.channels[0].volume = 15
       /\ [k \in 1 .. 4 |-> test.hist[k].tone] = <<NONE, TONE, NONE, TONE>>
       /\ [k \in 1 .. 4 |-> test.hist[k].noise] = <<NONE, NONE, NOISE, NOISE>> )
     => [k \in 1 .. 4 |-> test.hist[k].out] = <<15, 15, 15, 0>>

C2_Witness ==
  /\ Len(test.hist) = 4
  /\ sg.channels[0].mode = TONE + NOISE
  /\ [k \in 1 .. 4 |-> test.hist[k].tone] = <<NONE, TONE, NONE, TONE>>
  /\ [k \in 1 .. 4 |-> test.hist[k].noise] = <<NONE, NONE, NOISE, NOISE>>
  /\ [k \in 1 .. 4 |-> test.hist[k].out] = <<15, 15, 15, 0>>

\* C3: silence invariant.  A channel whose mode is NONE contributes 0 to every
\* sample whatever its volume and the divider states, and an engine whose
\* three channels all have mode NONE returns sample 0.
C3_Silence ==
  ret.op = "next_sample" =>
    /\ \A i \in Channels : sg.channels[i].mode = NONE => ret.outs[i + 1] = 0
    /\ (\A i \in Channels : sg.channels[i].mode = NONE) => ret.sample = 0

C3_Witness ==
  /\ ret.op = "next_sample"
  /\ \A i \in Channels : sg.channels[i].mode = NONE /\ sg.channels[i].volume = 15
  /\ sg.channels[0].generator.output = TONE
  /\ ret.noise = NONE
  /\ ret.sample = 0

\* the test's channel and what was configured on it
TestTone == sg.channels[0].generator

TestRunning == test.pc \in {"dummy", "count"}

\* C4: drift-free pitch.  With a tone period P, period_min <= P <= 4095, set
\* before the first sample and left unchanged, source = 8 * sample_rate * P
\* and after n >= 1 advances the toggle count T of the tone bit satisfies
\* 0 <= T * source - (n - 1) * clock_rate < source.
C4_DriftFree ==
  (TestRunning /\ samples >= 1 /\ test.period >= TestTone.period_min) =>
    LET d == test.toggles * TestTone.source - (samples - 1) * sg.clock_rate
    IN /\ TestTone.source = 8 * sg.sample_rate * test.period
       /\ 0 <= d
       /\ d < TestTone.source

\* the test's premises for the duty cycle: channel 0 a pure tone at non-zero
\* volume with P >= period_min, the other channels silent, one tone cycle seen
PureToneCycle ==
  /\ test.pc = "count"
  /\ sg.channels[0].mode = TONE
  /\ sg.channels[0].volume # 0
  /\ test.period >= TestTone.period_min
  /\ \A i \in {1, 2} : sg.channels[i].mode = NONE
  /\ test.cycle # <<>>

\* C5 as claimed: the zero and the non-zero samples are equally many over
\* every complete cycle of the tone divider state.
C5_DutyCycle ==
  PureToneCycle => test.cycle[1] = test.cycle[2]

\* C5 as amended: the zero and the non-zero samples are equally many over
\* every complete cycle of the tone divider state that spans an even number
\* of samples; with clock_rate = 8 * sample_rate and period 1 (the reference
\* test's rates) the counters agree after every even number of counted
\* samples.
C5_DutyCycleEven ==
  /\ PureToneCycle =>
       ((test.cycle[1] + test.cycle[2]) % 2 = 0 => test.cycle[1] = test.cycle[2])
  /\ ( /\ test.pc = "count"
       /\ sg.channels[0].mode = TONE
       /\ sg.channels[0].volume # 0
       /\ sg.clock_rate = 8 * sg.sample_rate
       /\ test.period = 1
       /\ (test.zero + test.non_zero) % 2 = 0 )
     => test.zero = test.non_zero

C5_Witness ==
  /\ PureToneCycle
  /\ test.cycle[1] + test.cycle[2] >= 4
  /\ test.cycle[1] = test.cycle[2]
  /\ sg.clock_rate = 20000000
  /\ sg.sample_rate = 2500000

\* a call the documentation rules out
InvalidCall(r) ==
  \/ r.op = "set_period" /\ (r.arg >= 4096 \/ r.channel \notin {0, 1, 2})
  \/ r.op = "set_volume" /\ (r.arg >= 16 \/ r.channel \notin {0, 1, 2})
  \/ r.op = "set_mode" /\ r.channel \notin {0, 1, 2}
  \/ r.op = "set_noise_period" /\ r.arg >= 32

\* no field holds a value a setter must refuse
StoredInRange ==
  /\ \A i \in Channels :
       /\ sg.channels[i].volume \in 0 .. 15
       /\ sg.channels[i].generator.source
            <= sg.channels[i].generator.sample_rate_x8
                 * Max(4095, sg.channels[i].generator.period_min)
  /\ sg.noise.source <= sg.noise.sample_rate_x16 * (Max(31, sg.noise.period_min) + 1)

\* C6: invalid configuration is rejected and changes nothing.  Every call of
\* set_period with period >= 4096, set_volume with volume >= 16,
\* set_noise_period with period >= 32, or of a channel method with a channel
\* index outside {0,1,2} panics and leaves the whole engine as it was; no
\* out-of-range value is ever stored.
C6_InvalidRejected ==
  [][ /\ InvalidCall(ret') => (ret'.panic /\ sg' = sg)
      /\ ret'.panic => sg' = sg
      /\ StoredInRange' ]_vars

C6_Witness ==
  /\ ret.op = "set_period"
  /\ ret.channel = 1
  /\ ret.arg = 4096
  /\ ret.panic
  /\ sg.channels[1].generator.source = 3 * sg.channels[1].generator.sample_rate_x8
  /\ sg.channels[1].volume = 15
  /\ samples > 0

\* C7: period clamping.  set_period(p), p < 4096, and set_noise_period(p),
\* p < 32, return without error and leave tone source =
\* 8 * sample_rate * max(p, period_min), noise source =
\* 16 * sample_rate * (max(p, period_min) + 1); in every state the tone
\* source is >= period_min * 8 * sample_rate, the noise source is >=
\* (period_min + 1) * 16 * sample_rate, and neither is 0.
C7_PeriodClamping ==
  /\ (ret.op = "set_period" /\ ret.channel \in Channels /\ ret.arg < 4096) =>
       /\ ~ret.panic
       /\ sg.channels[ret.channel].generator.source =
            8 * sg.sample_rate
              * Max(ret.arg, sg.channels[ret.channel].generator.period_min)
  /\ (ret.op = "set_noise_period" /\ ret.arg < 32) =>
       /\ ~ret.panic
       /\ sg.noise.source =
            16 * sg.sample_rate * (Max(ret.arg, sg.noise.period_min) + 1)
  /\ \A i \in Channels :
       /\ sg.channels[i].generator.source
            >= sg.channels[i].generator.period_min * 8 * sg.sample_rate
       /\ sg.channels[i].generator.source # 0
  /\ sg.noise.source >= (sg.noise.period_min + 1) * 16 * sg.sample_rate
  /\ sg.noise.source # 0

\* C8: initial silence.  A freshly constructed engine has three channels with
\* volume 0, mode NONE and tone source = period_min * 8 * sample_rate, and
\* next_sample returns 0 whenever every channel has mode NONE or volume 0.
C8_InitialSilence ==
  /\ ret.op = "new" =>
       \A i \in Channels :
         /\ sg.channels[i].volume = 0
         /\ sg.channels[i].mode = NONE
         /\ sg.channels[i].generator.source =
              sg.channels[i].generator.period_min * 8 * sg.sample_rate
  /\ ( /\ ret.op = "next_sample"
       /\ \A i \in Channels :
            sg.channels[i].mode = NONE \/ sg.channels[i].volume = 0 )
     => ret.sample = 0

C8_Witness ==
  /\ ret.op = "next_sample"
  /\ samples >= 2
  /\ sg.channels[1].mode = TONE
  /\ sg.channels[1].volume = 0
  /\ sg.channels[1].generator.output = NONE
  /\ ret.sample = 0

\* what a next_sample step does with the fields the setters wrote
SampleUsesFields ==
  /\ \A i \in Channels :
       LET g == sg.channels[i].generator
           e == g.error - g.clock_rate
       IN /\ ret'.outs[i + 1] =
               IF Audible(sg.channels[i].mode, ToneBit(sg', i), NoiseBit(ret'.noise))
               THEN sg.channels[i].volume ELSE 0
          /\ e < 0 => sg'.channels[i].generator.error = e + g.source
          /\ (ret.op = "set_mode" /\ ~ret.panic /\ ret.channel = i) =>
               ret'.outs[i + 1] =
                 IF Audible(ret.arg, ToneBit(sg', i), NoiseBit(ret'.noise))
                 THEN sg.channels[i].volume ELSE 0
          /\ (ret.op = "set_volume" /\ ~ret.panic /\ ret.channel = i) =>
               ret'.outs[i + 1] =
                 IF Audible(sg.channels[i].mode, ToneBit(sg', i), NoiseBit(ret'.noise))
                 THEN ret.arg ELSE 0
          /\ (ret.op = "set_period" /\ ~ret.panic /\ ret.channel = i /\ e < 0) =>
               sg'.channels[i].generator.error =
                 e + g.sample_rate_x8 * Max(ret.arg, g.period_min)
  /\ ret'.sample = TableSum(ret'.outs)
  /\ LET e == sg.noise.error - sg.noise.clock_rate
     IN /\ e < 0 => sg'.noise.error = e + sg.noise.source
        /\ (ret.op = "set_noise_period" /\ ~ret.panic /\ e < 0) =>
             sg'.noise.error =
               e + sg.noise.sample_rate_x16 * U8(Max(ret.arg, sg.noise.period_min) + 1)

\* C9: setters take effect on the very next sample.  A setter that returns
\* has stored its argument (the source computed from it) when it returns; a
\* next_sample computes each contribution from the stored mode and volume,
\* adds the stored source on a re-bias, and returns the table sum; so the
\* sample right after set_mode(i, m) / set_volume(i, v) / set_period /
\* set_noise_period is computed with m, v and the new source.
C9_SettersImmediate ==
  [][ /\ (ret'.op = "set_mode" /\ ~ret'.panic) =>
           sg'.channels[ret'.channel].mode = ret'.arg
      /\ (ret'.op = "set_volume" /\ ~ret'.panic) =>
           sg'.channels[ret'.channel].volume = ret'.arg
      /\ (ret'.op = "set_period" /\ ~ret'.panic) =>
           sg'.channels[ret'.channel].generator.source =
             sg.channels[ret'.channel].generator.sample_rate_x8
               * Max(ret'.arg, sg.channels[ret'.channel].generator.period_min)
      /\ (ret'.op = "set_noise_period" /\ ~ret'.panic) =>
           sg'.noise.source =
             sg.noise.sample_rate_x16 * U8(Max(ret'.arg, sg.noise.period_min) + 1)
      /\ ret'.op = "next_sample" => SampleUsesFields ]_vars

C9_Witness ==
  /\ sg.clock_rate = 8
  /\ ret.op = "next_sample"
  /\ samples = 2
  /\ sg.channels[1].generator.error = 16
  /\ sg.noise.source = 512
  /\ ret.outs[2] = 15
  /\ ret.sample = OUTPUT_VOLUME_TABLE_i16[15]

\* C10: determinism.  Two engines constructed with the same rates and given
\* the same calls hold the same state and return the same results (samples
\* included) at every step; and whatever set_period / set_volume / set_mode
\* calls only one of them got, their noise generators stay equal, so the
\* noise bits are a function of the rates and the noise period calls alone.
C10_Determinism ==
  /\ twin.solo = {} => (twin.sg = sg /\ twin.ret = ret)
  /\ twin.sg.noise = sg.noise
  /\ (ret.op = "next_sample" /\ twin.ret.op = "next_sample") =>
       twin.ret.noise = ret.noise

C10_Witness ==
  /\ twin.solo = {}
  /\ ret.op = "next_sample"
  /\ samples >= 2
  /\ sg.noise.source = 32
  /\ ret.sample = OUTPUT_VOLUME_TABLE_i16[15]
  /\ twin.ret.sample = ret.sample

C10_WitnessSolo ==
  /\ twin.solo = {"set_period", "set_volume", "set_mode"}
  /\ ret.op = "next_sample"
  /\ twin.ret.op = "next_sample"
  /\ twin.ret.sample # ret.sample
  /\ twin.sg.noise.shift # 1

\* the arguments new was called with: twin is never called by these callers,
\* so its last call is still its construction
NewArgs == twin.ret.arg

\* C11: clock_rate() and sample_rate() are pure reads.  After any setter and
\* next_sample calls the engine's two rates are the arguments new was given,
\* the accessors return them, and an accessor call leaves the engine as it
\* was.
C11_AccessorsPure ==
  [][ /\ twin.ret.op = "new"
      /\ sg'.clock_rate = NewArgs[1]
      /\ sg'.sample_rate = NewArgs[2]
      /\ ret'.op = "clock_rate" => (ret'.sample = NewArgs[1] /\ sg' = sg)
      /\ ret'.op = "sample_rate" => (ret'.sample = NewArgs[2] /\ sg' = sg) ]_vars

C11_Witness ==
  /\ ret.op = "clock_rate"
  /\ ret.sample = 30
  /\ samples >= 2
  /\ sg.channels[1].volume = 15
  /\ sg.channels[1].mode = TONE
  /\ sg.channels[1].generator.source = 24
  /\ sg.noise.source = 512

\* C12: tone period_min guarantee.  For every pair of rates (1,789,772 and
\* 44,100 among them) and every configured tone period in 0..4095 one
\* re-bias per advance suffices: the error accumulator of every tone divider
\* is >= 0 after every advance, and it is >= 0 before the first.
C12_OneToggleSuffices ==
  \A i \in Channels : sg.channels[i].generator.error >= 0

\* one advance of a tone divider takes g to h
ToneAdvanced(g, h) ==
  LET e == g.error - g.clock_rate
  IN h = [g EXCEPT !.error = IF e < 0 THEN e + g.source ELSE e,
                   !.output = IF e < 0 THEN TONE - g.output ELSE g.output]

\* one advance of the noise divider takes n to m
NoiseAdvanced(n, m) ==
  LET e == n.error - n.clock_rate
  IN m = [n EXCEPT !.error = IF e < 0 THEN e + n.source ELSE e,
                   !.shift = IF e < 0 THEN ShiftStep(n.shift) ELSE n.shift]

\* C13: one sample = one step in fixed order.  Each next_sample advances the
\* noise divider exactly once and each of the three tone dividers exactly
\* once, gives all three channels the noise bit of the shift register after
\* this sample's noise advance, returns the sum of the table entries of the
\* three contributions, and changes nothing else of the engine.
C13_OneStepPerSample ==
  [][ ret'.op = "next_sample" =>
        /\ NoiseAdvanced(sg.noise, sg'.noise)
        /\ ret'.noise = IF sg'.noise.shift % 2 = 1 THEN NOISE ELSE NONE
        /\ Len(ret'.outs) = CHANNELS
        /\ \A i \in Channels :
             /\ ToneAdvanced(sg.channels[i].generator, sg'.channels[i].generator)
             /\ sg'.channels[i].volume = sg.channels[i].volume
             /\ sg'.channels[i].mode = sg.channels[i].mode
             /\ ret'.outs[i + 1] =
                  IF Audible(sg.channels[i].mode, ToneBit(sg', i), NoiseBit(ret'.noise))
                  THEN sg.channels[i].volume ELSE 0
        /\ ret'.sample = TableSum(ret'.outs)
        /\ sg'.clock_rate = sg.clock_rate
        /\ sg'.sample_rate = sg.sample_rate ]_vars

\* the second sample at rates 8/1: the register has just stepped from 1 to
\* 32768, so the noise bit was 1 before this sample's advance and is 0 after
C13_Witness ==
  /\ ret.op = "next_sample"
  /\ samples = 2
  /\ sg.noise.shift = 32768
  /\ ret.noise = NONE
  /\ \A i \in Channels : sg.channels[i].mode = NOISE
  /\ ret.outs = <<15, 9, 15>>
  /\ ret.sample = (2 * OUTPUT_VOLUME_TABLE_i16[15]) + OUTPUT_VOLUME_TABLE_i16[9]
  /\ \A i \in Channels : sg.channels[i].generator.output = TONE

\* bit k of r
Bit(r, k) == (r \div (2 ^ k)) % 2

\* (r >> 1) | (((r xor (r >> 3)) mod 2) << 15)
LfsrNext(r) == (r \div 2) + (32768 * ((Bit(r, 0) + Bit(r, 3)) % 2))

\* C14: noise LFSR step.  A noise advance lowers the error accumulator by
\* clock_rate; only if that made it negative is source added back and the
\* register r replaced by (r >> 1) | (((r xor (r >> 3)) mod 2) << 15), a 16
\* bit value; otherwise r stays; the advance returns NOISE iff bit 0 of the
\* resulting register is 1.
C14_LfsrStep ==
  [][ ret'.op = "next_sample" =>
        LET e == sg.noise.error - sg.noise.clock_rate
            r == sg.noise.shift
        IN /\ sg'.noise.error = IF e < 0 THEN e + sg.noise.source ELSE e
           /\ sg'.noise.shift = IF e < 0 THEN LfsrNext(r) ELSE r
           /\ sg'.noise.shift \in 0 .. 65535
           /\ ret'.noise = IF Bit(sg'.noise.shift, 0) = 1 THEN NOISE ELSE NONE ]_vars

\* the register after 30 steps from the seed: 16#1004, the successor of
\* 16#2009 (bits 0 and 3 both set, feedback 0); bit 3 alone fed back 1 on
\* the way (16#0008 to 16#8004)
C14_Witness ==
  /\ ret.op = "next_sample"
  /\ sg.noise.shift = 4100
  /\ ret.noise = NONE
  /\ samples >= 30

\* C15: setters touch one field only.  set_period(i, p) changes at most the
\* tone source of channel i (not its error accumulator or tone bit),
\* set_volume(i, v) at most the volume of channel i, set_mode(i, m) at most
\* the mode of channel i, set_noise_period(p) at most the noise source (not
\* the noise error accumulator or shift register); every other field of the
\* engine is as before the call.
C15_SettersFrame ==
  [][ /\ (ret'.op = "set_period" /\ ret'.channel \in Channels) =>
           sg' = [sg EXCEPT !.channels[ret'.channel].generator.source =
                              sg'.channels[ret'.channel].generator.source]
      /\ (ret'.op = "set_volume" /\ ret'.channel \in Channels) =>
           sg' = [sg EXCEPT !.channels[ret'.channel].volume =
                              sg'.channels[ret'.channel].volume]
      /\ (ret'.op = "set_mode" /\ ret'.channel \in Channels) =>
           sg' = [sg EXCEPT !.channels[ret'.channel].mode =
                              sg'.channels[ret'.channel].mode]
      /\ ret'.op = "set_noise_period" =>
           sg' = [sg EXCEPT !.noise.source = sg'.noise.source]
      /\ ( /\ ret'.op \in {"set_period", "set_volume", "set_mode"}
           /\ ret'.channel \notin Channels ) => sg' = sg ]_vars

\* a period set in mid-phase: two samples taken at rates 30/1, the tone bit
\* of channel 1 set and its error accumulator off its initial value
C15_Witness ==
  /\ ret.op = "set_period"
  /\ ret.channel = 1
  /\ ~ret.panic
  /\ samples = 2
  /\ sg.channels[1].generator.source = 24
  /\ sg.channels[1].generator.error = -14
  /\ sg.channels[1].generator.output = TONE
  /\ sg.channels[1].volume = 15
  /\ sg.channels[1].mode = TONE + NOISE
  /\ sg.noise.shift = 32768
  /\ sg.noise.source = 512

\* C16: the noise divider never falls behind.  Whenever
\* floor(clock_rate / (16 * sample_rate)) <= 254 the noise source is greater
\* than clock_rate in every state, and the noise error accumulator is >= 0
\* before the first advance and after every advance, under any interleaving
\* of set_noise_period calls.
C16_NoiseKeepsUp ==
  (sg.clock_rate \div (16 * sg.sample_rate) <= 254) =>
    /\ sg.noise.source > sg.clock_rate
    /\ sg.noise.error >= 0

\* rates 4064/1, where the quotient is 254 and the source (254 + 1) * 16:
\* four samples, the register stepped on the last three
C16_Witness ==
  /\ ret.op = "next_sample"
  /\ sg.clock_rate = 4064
  /\ sg.noise.period_min = 254
  /\ sg.noise.source = 4080
  /\ samples = 4
  /\ sg.noise.error = 48
  /\ sg.noise.shift = 8192

\* the register value the step maps to s
ShiftBack(s) == (2 * (s % 32768)) + ((Bit(s, 15) + Bit(s, 2)) % 2)

\* register steps from r until bit 0 is set (17 if none within 16)
RECURSIVE StepsUntilNoise(_, _)
StepsUntilNoise(r, k) ==
  IF k > 16 THEN k
  ELSE IF Bit(r, 0) = 1 THEN k
  ELSE StepsUntilNoise(ShiftStep(r), k + 1)

\* C17: the shift register never locks up.  From the seed 1, after any
\* number of noise advances and set_noise_period calls the register is a
\* non-zero 16 bit value; the step is undone by ShiftBack on every value the
\* register takes, its successor is non-zero too, and bit 0 is set again
\* within 15 steps.
C17_NeverLocksUp ==
  /\ sg.noise.shift \in 1 .. 65535
  /\ ShiftStep(sg.noise.shift) # 0
  /\ ShiftBack(ShiftStep(sg.noise.shift)) = sg.noise.shift
  /\ StepsUntilNoise(sg.noise.shift, 0) <= 15

\* the register 200 steps from the seed, at the longer noise period
C17_Witness ==
  /\ ret.op = "next_sample"
  /\ sg.noise.source = 32
  /\ sg.noise.shift = 24337
  /\ ret.noise = NOISE

\* the phase of an engine's dividers
TonePhase(generator, i) ==
  <<generator.channels[i].generator.error, generator.channels[i].generator.output>>

NoisePhase(generator) == <<generator.noise.error, generator.noise.shift>>

Silent(channel) == channel.mode = NONE \/ channel.volume = 0

\* C18: mode and volume do not influence divider phase.  Two engines built
\* with the same rates, given the same set_period and set_noise_period calls
\* and sampled at the same points, but given different set_mode and
\* set_volume calls, have equal tone error accumulators, tone bits, noise
\* error accumulator and shift register at every step; and a silent channel
\* (mode NONE or volume 0) has its tone divider advanced by every sample.
C18_PhaseIndependent ==
  [][ /\ "set_period" \notin twin'.solo =>
           \A i \in Channels : TonePhase(twin'.sg, i) = TonePhase(sg', i)
      /\ \A i \in {1, 2} : TonePhase(twin'.sg, i) = TonePhase(sg', i)
      /\ NoisePhase(twin'.sg) = NoisePhase(sg')
      /\ samples' = samples + 1 =>
           \A i \in Channels :
             /\ Silent(sg.channels[i]) =>
                  ToneAdvanced(sg.channels[i].generator, sg'.channels[i].generator)
             /\ Silent(twin.sg.channels[i]) =>
                  ToneAdvanced(twin.sg.channels[i].generator,
                               twin'.sg.channels[i].generator) ]_vars

\* channel 0 silent in one engine and a noise channel at volume 9 in the
\* other: different samples, equal phases
C18_Witness ==
  /\ twin.solo = {"set_volume", "set_mode"}
  /\ ret.op = "next_sample"
  /\ twin.ret.op = "next_sample"
  /\ samples >= 2
  /\ sg.channels[0].mode = NONE
  /\ twin.sg.channels[0].mode = NOISE
  /\ twin.sg.channels[0].volume = 9
  /\ twin.ret.outs[1] = 9
  /\ twin.ret.sample # ret.sample
  /\ sg.channels[0].generator.output = TONE
  /\ TonePhase(twin.sg, 0) = TonePhase(sg, 0)
  /\ sg.channels[1].generator.source = 24

====
